---------------------------- MODULE Spec2Model ----------------------------
(***************************************************************************)
(* A model of the virtio block device of rvemu                             *)
(* (src/src/devices/virtio_blk.rs): the MMIO register file (Virtio::read,  *)
(* Virtio::write), the notify edge detector (Virtio::is_interrupting) and  *)
(* the request interpreter with its DMA transfer (Virtio::disk_access).    *)
(*                                                                         *)
(* Numbers are TLC integers (below 2^31).  Every value the model draws or  *)
(* computes stays below 2^31, a range on which the `as u32` casts of the   *)
(* source keep the value; the casts to u8 are modelled (% 256).            *)
(***************************************************************************)
EXTENDS Integers, Sequences, FiniteSets, TLC

(***************************************************************************)
(* Constants of the source.                                                *)
(***************************************************************************)
BYTE == 8
HALFWORD == 16
WORD == 32
DOUBLEWORD == 64
Sizes == {BYTE, HALFWORD, WORD, DOUBLEWORD}

VIRTIO_BASE == 268439552
VRING_DESC_SIZE == 16
QUEUE_SIZE == 8
SECTOR_SIZE == 512
NO_NOTIFY == 9999

VIRTIO_MAGIC == VIRTIO_BASE + 0
VIRTIO_VERSION == VIRTIO_BASE + 4
VIRTIO_DEVICE_ID == VIRTIO_BASE + 8
VIRTIO_VENDOR_ID == VIRTIO_BASE + 12
VIRTIO_DEVICE_FEATURES == VIRTIO_BASE + 16
VIRTIO_DEVICE_FEATURES_SEL == VIRTIO_BASE + 20
VIRTIO_DRIVER_FEATURES == VIRTIO_BASE + 32
VIRTIO_DRIVER_FEATURES_SEL == VIRTIO_BASE + 36
VIRTIO_GUEST_PAGE_SIZE == VIRTIO_BASE + 40
VIRTIO_QUEUE_SEL == VIRTIO_BASE + 48
VIRTIO_QUEUE_NUM_MAX == VIRTIO_BASE + 52
VIRTIO_QUEUE_NUM == VIRTIO_BASE + 56
VIRTIO_QUEUE_ALIGN == VIRTIO_BASE + 60
VIRTIO_QUEUE_PFN == VIRTIO_BASE + 64
VIRTIO_QUEUE_NOTIFY == VIRTIO_BASE + 80
VIRTIO_MMIO_INTERRUPT_STATUS == VIRTIO_BASE + 96
VIRTIO_MMIO_INTERRUPT_ACK == VIRTIO_BASE + 100
VIRTIO_STATUS == VIRTIO_BASE + 112
VIRTIO_CONFIG == VIRTIO_BASE + 256
VIRTIO_CONFIG_END == VIRTIO_CONFIG + 8

MAGIC_VALUE == 1953655158
VERSION_VALUE == 1
DEVICE_ID_VALUE == 2
VENDOR_ID_VALUE == 1431127377
QUEUE_NUM_MAX_VALUE == 8

(***************************************************************************)
(* Arithmetic helpers for the source's bit operations.                     *)
(***************************************************************************)
RECURSIVE Shr(_, _)
\* value >> bits, for bits a multiple of 8
Shr(value, bits) == IF bits = 0 THEN value ELSE Shr(value \div 256, bits - 8)

\* x as u8
AsU8(x) == x % 256

\* x & 0x1
Bit0(x) == x % 2

\* x & !0x1
ClearBit0(x) == x - (x % 2)

\* x | 0x1
SetBit0(x) == x - (x % 2) + 1

\* (x & 2) == 0
Bit1Clear(x) == (x \div 2) % 2 = 0

(***************************************************************************)
(* The device.  The record's fields are the fields of struct Virtio.       *)
(***************************************************************************)
\* Virtio::initialize appends the image to the (empty) disk: the disk is a
\* vector of bytes, here a function on 0..len-1.
initialize(v, binary) ==
    [v EXCEPT !.disk = [i \in 0..(Len(binary) - 1) |-> binary[i + 1]]]

VirtioNew ==
    [id |-> 0,
     device_features |-> [i \in 0..1 |-> 0],
     device_features_sel |-> 0,
     driver_features |-> [i \in 0..1 |-> 0],
     driver_features_sel |-> 0,
     guest_page_size |-> 0,
     queue_sel |-> 0,
     queue_num |-> 0,
     queue_align |-> 0,
     queue_pfn |-> 0,
     queue_notify |-> NO_NOTIFY,
     interrupt_status |-> 0,
     status |-> 0,
     config |-> [i \in 0..7 |-> 0],
     disk |-> [i \in {} |-> 0]]

DiskLen(v) == Cardinality(DOMAIN v.disk)

\* A variant of is_interrupting that answers without clearing the notify.
is_interrupting_level(v) ==
    IF v.queue_notify # NO_NOTIFY
    THEN [ret |-> "true", v |-> v]
    ELSE [ret |-> "false", v |-> v]

\* Virtio::is_interrupting: the answer and the device afterwards.
is_interrupting(v) ==
    IF v.queue_notify # NO_NOTIFY
    THEN [ret |-> "true", v |-> [v EXCEPT !.queue_notify = NO_NOTIFY]]
    ELSE [ret |-> "false", v |-> v]

ReadOk(value) == [ret |-> "Ok", val |-> value]
ReadErr(e) == [ret |-> e, val |-> 0]

\* The VIRTIO_CONFIG..=VIRTIO_CONFIG_END arm of Virtio::read.  The range is
\* inclusive, so index 8 is matched and indexes the 8-byte array: a panic.
ReadConfig(v, addr, size) ==
    IF size # BYTE THEN ReadErr("LoadAccessFault")
    ELSE LET index == addr - VIRTIO_CONFIG
         IN  IF index \in DOMAIN v.config
             THEN ReadOk(v.config[index])
             ELSE ReadErr("panic")

\* The VIRTIO_DEVICE_FEATURES arm of Virtio::read: an index into [u32; 2].
ReadDeviceFeatures(v) ==
    IF v.device_features_sel \in DOMAIN v.device_features
    THEN ReadOk(v.device_features[v.device_features_sel])
    ELSE ReadErr("panic")

\* The width check that opens Virtio::read (line 284).
ReadWidthFault(size) == size = DOUBLEWORD

\* A variant of read in which the Version register is a window on the
\* device status.
read_version_status(v, addr, size) ==
    IF ReadWidthFault(size) THEN ReadErr("LoadAccessFault")
    ELSE CASE addr = VIRTIO_MAGIC -> ReadOk(MAGIC_VALUE)
           [] addr = VIRTIO_VERSION -> ReadOk(v.status)
           [] addr = VIRTIO_DEVICE_ID -> ReadOk(DEVICE_ID_VALUE)
           [] addr = VIRTIO_VENDOR_ID -> ReadOk(VENDOR_ID_VALUE)
           [] addr = VIRTIO_DEVICE_FEATURES -> ReadDeviceFeatures(v)
           [] addr = VIRTIO_QUEUE_NUM_MAX -> ReadOk(QUEUE_NUM_MAX_VALUE)
           [] addr = VIRTIO_QUEUE_PFN -> ReadOk(v.queue_pfn)
           [] addr = VIRTIO_MMIO_INTERRUPT_STATUS -> ReadOk(v.interrupt_status)
           [] addr = VIRTIO_STATUS -> ReadOk(v.status)
           [] addr \in VIRTIO_CONFIG..VIRTIO_CONFIG_END -> ReadConfig(v, addr, size)
           [] OTHER -> ReadErr("LoadAccessFault")

\* Virtio::read
read(v, addr, size) ==
    IF ReadWidthFault(size) THEN ReadErr("LoadAccessFault")
    ELSE CASE addr = VIRTIO_MAGIC -> ReadOk(MAGIC_VALUE)
           [] addr = VIRTIO_VERSION -> ReadOk(VERSION_VALUE)
           [] addr = VIRTIO_DEVICE_ID -> ReadOk(DEVICE_ID_VALUE)
           [] addr = VIRTIO_VENDOR_ID -> ReadOk(VENDOR_ID_VALUE)
           [] addr = VIRTIO_DEVICE_FEATURES -> ReadDeviceFeatures(v)
           [] addr = VIRTIO_QUEUE_NUM_MAX -> ReadOk(QUEUE_NUM_MAX_VALUE)
           [] addr = VIRTIO_QUEUE_PFN -> ReadOk(v.queue_pfn)
           [] addr = VIRTIO_MMIO_INTERRUPT_STATUS -> ReadOk(v.interrupt_status)
           [] addr = VIRTIO_STATUS -> ReadOk(v.status)
           [] addr \in VIRTIO_CONFIG..VIRTIO_CONFIG_END -> ReadConfig(v, addr, size)
           [] OTHER -> ReadErr("LoadAccessFault")

WriteOk(v) == [ret |-> "Ok", v |-> v]
WriteErr(v, e) == [ret |-> e, v |-> v]

\* A variant of WriteDriverFeatures that ignores the selector.
WriteDriverFeaturesWord0(v, value) ==
    WriteOk([v EXCEPT !.driver_features[0] = value])

\* The VIRTIO_DRIVER_FEATURES arm of Virtio::write: an index into [u32; 2].
WriteDriverFeatures(v, value) ==
    IF v.driver_features_sel \in DOMAIN v.driver_features
    THEN WriteOk([v EXCEPT !.driver_features[v.driver_features_sel] = value])
    ELSE WriteErr(v, "panic")

\* A variant of WriteInterruptAck that accepts the value and clears nothing.
WriteInterruptAckKeep(v, value) ==
    IF Bit0(value) = 1 THEN WriteOk(v) ELSE WriteErr(v, "panic")

\* The VIRTIO_MMIO_INTERRUPT_ACK arm of Virtio::write.
WriteInterruptAck(v, value) ==
    IF Bit0(value) = 1
    THEN WriteOk([v EXCEPT !.interrupt_status = ClearBit0(v.interrupt_status)])
    ELSE WriteErr(v, "panic")

\* The byte stored by the VIRTIO_CONFIG arm: (value >> (index * 8)) as u8.
ConfigByte(value, index) == AsU8(Shr(value, index * 8))

\* The VIRTIO_CONFIG..=VIRTIO_CONFIG_END arm of Virtio::write.  Index 8 is
\* matched by the inclusive range: the shift by 64 overflows (a panic in a
\* checked build) and config[8] is out of range (a panic in every build).
WriteConfig(v, addr, value, size) ==
    IF size # BYTE THEN WriteErr(v, "StoreAMOAccessFault")
    ELSE LET index == addr - VIRTIO_CONFIG
         IN  IF index \in DOMAIN v.config
             THEN WriteOk([v EXCEPT !.config[index] = ConfigByte(value, index)])
             ELSE WriteErr(v, "panic")

\* A variant of WriteWidthFault that lets every width through.
WriteAnyWidth(size) == FALSE

\* The width check that opens Virtio::write (line 313).
WriteWidthFault(size) == size = DOUBLEWORD

\* Virtio::write
write(v, addr, value, size) ==
    IF WriteWidthFault(size) THEN WriteErr(v, "StoreAMOAccessFault")
    ELSE CASE addr = VIRTIO_DEVICE_FEATURES_SEL ->
                WriteOk([v EXCEPT !.device_features_sel = value])
           [] addr = VIRTIO_DRIVER_FEATURES -> WriteDriverFeatures(v, value)
           [] addr = VIRTIO_DRIVER_FEATURES_SEL ->
                WriteOk([v EXCEPT !.driver_features_sel = value])
           [] addr = VIRTIO_GUEST_PAGE_SIZE ->
                WriteOk([v EXCEPT !.guest_page_size = value])
           [] addr = VIRTIO_QUEUE_SEL -> WriteOk([v EXCEPT !.queue_sel = value])
           [] addr = VIRTIO_QUEUE_NUM -> WriteOk([v EXCEPT !.queue_num = value])
           [] addr = VIRTIO_QUEUE_ALIGN -> WriteOk([v EXCEPT !.queue_align = value])
           [] addr = VIRTIO_QUEUE_PFN -> WriteOk([v EXCEPT !.queue_pfn = value])
           [] addr = VIRTIO_QUEUE_NOTIFY -> WriteOk([v EXCEPT !.queue_notify = value])
           [] addr = VIRTIO_MMIO_INTERRUPT_ACK -> WriteInterruptAck(v, value)
           [] addr = VIRTIO_STATUS -> WriteOk([v EXCEPT !.status = value])
           [] addr \in VIRTIO_CONFIG..VIRTIO_CONFIG_END ->
                WriteConfig(v, addr, value, size)
           [] OTHER -> WriteErr(v, "StoreAMOAccessFault")

\* Virtio::get_new_id: the counter is incremented, then returned.  (The
\* wrap of the u64 counter is beyond every bound of the model.)
get_new_id(v) == [v EXCEPT !.id = v.id + 1]

\* A variant of desc_addr that gives each selected queue a page of its own.
desc_addr_selected(v) == (v.queue_pfn + v.queue_sel) * v.guest_page_size

\* Virtio::desc_addr
desc_addr(v) == v.queue_pfn * v.guest_page_size

(***************************************************************************)
(* The bus (crate::bus, outside this file): guest memory is a function     *)
(* from the mapped RAM addresses to bytes.  An access that touches an      *)
(* unmapped address fails with the typed access fault; multi-byte values   *)
(* are little-endian.                                                      *)
(***************************************************************************)
RECURSIVE LittleEndian(_, _, _)
LittleEndian(mem, addr, n) ==
    IF n = 0 THEN 0
    ELSE mem[addr] + 256 * LittleEndian(mem, addr + 1, n - 1)

Mapped(mem, addr, size) ==
    \A k \in 0..((size \div 8) - 1) : (addr + k) \in DOMAIN mem

\* cpu.bus.read(addr, size)
BusRead(mem, addr, size) ==
    IF Mapped(mem, addr, size)
    THEN [ret |-> "Ok", val |-> LittleEndian(mem, addr, size \div 8)]
    ELSE [ret |-> "LoadAccessFault", val |-> 0]

\* cpu.bus.write(addr, value, size)
BusWrite(mem, addr, value, size) ==
    IF Mapped(mem, addr, size)
    THEN [ret |-> "Ok",
          mem |-> [a \in DOMAIN mem |->
                     IF a \in addr..(addr + (size \div 8) - 1)
                     THEN AsU8(Shr(value, 8 * (a - addr)))
                     ELSE mem[a]]]
    ELSE [ret |-> "StoreAMOAccessFault", mem |-> mem]

(***************************************************************************)
(* The request interpreter.                                                *)
(***************************************************************************)
\* VirtqDesc::new: four reads, the first failure is returned.
VirtqDesc_new(mem, addr) ==
    LET a == BusRead(mem, addr, DOUBLEWORD)
        l == BusRead(mem, addr + 8, WORD)
        f == BusRead(mem, addr + 12, HALFWORD)
        n == BusRead(mem, addr + 14, HALFWORD)
        bad == CASE a.ret # "Ok" -> a.ret
                 [] l.ret # "Ok" -> l.ret
                 [] f.ret # "Ok" -> f.ret
                 [] n.ret # "Ok" -> n.ret
                 [] OTHER -> "Ok"
    IN  [ret |-> bad, addr |-> a.val, len |-> l.val, flags |-> f.val,
         next |-> n.val]

\* Virtio::read_disk: self.disk[addr], a panic when out of range.
read_disk(v, addr) ==
    IF addr \in DOMAIN v.disk THEN [ret |-> "Ok", val |-> v.disk[addr]]
    ELSE [ret |-> "panic", val |-> 0]

\* Virtio::write_disk: self.disk[addr] = value as u8, a panic when out of range.
write_disk(v, addr, value) ==
    IF addr \in DOMAIN v.disk
    THEN [ret |-> "Ok", v |-> [v EXCEPT !.disk[addr] = AsU8(value)]]
    ELSE [ret |-> "panic", v |-> v]

\* A variant of DiskOffset that takes the sector number as a byte offset.
DiskOffsetUnscaled(sector, i) == sector + i

\* The offset of the backing store for byte i of a transfer.
DiskOffset(sector, i) == sector * SECTOR_SIZE + i

RECURSIVE ToDisk(_, _, _, _, _)
\* The loop of the `true` arm (lines 445-448), from byte i on: guest memory
\* to the disk.  It stops at the first failing read or out-of-range index.
ToDisk(cpu, desc1, sector, i, n) ==
    IF i >= n THEN [ret |-> "Ok", v |-> cpu.v, mem |-> cpu.mem]
    ELSE LET data == BusRead(cpu.mem, desc1.addr + i, BYTE)
         IN  IF data.ret # "Ok"
             THEN [ret |-> data.ret, v |-> cpu.v, mem |-> cpu.mem]
             ELSE LET w == write_disk(cpu.v, DiskOffset(sector, i), data.val)
                  IN  IF w.ret # "Ok"
                      THEN [ret |-> w.ret, v |-> cpu.v, mem |-> cpu.mem]
                      ELSE ToDisk([v |-> w.v, mem |-> cpu.mem], desc1, sector,
                                  i + 1, n)

RECURSIVE FromDisk(_, _, _, _, _)
\* The loop of the `false` arm (lines 452-455), from byte i on: the disk to
\* guest memory.
FromDisk(cpu, desc1, sector, i, n) ==
    IF i >= n THEN [ret |-> "Ok", v |-> cpu.v, mem |-> cpu.mem]
    ELSE LET data == read_disk(cpu.v, DiskOffset(sector, i))
         IN  IF data.ret # "Ok"
             THEN [ret |-> data.ret, v |-> cpu.v, mem |-> cpu.mem]
             ELSE LET w == BusWrite(cpu.mem, desc1.addr + i, data.val, BYTE)
                  IN  IF w.ret # "Ok"
                      THEN [ret |-> w.ret, v |-> cpu.v, mem |-> cpu.mem]
                      ELSE FromDisk([v |-> cpu.v, mem |-> w.mem], desc1, sector,
                                    i + 1, n)

\* The direction test of line 442: (desc1.flags & 2) == 0.
GuestToDevice(desc1) == Bit1Clear(desc1.flags)

\* The match of lines 442-457.
Transfer(cpu, desc1, sector) ==
    IF GuestToDevice(desc1)
    THEN ToDisk(cpu, desc1, sector, 0, desc1.len)
    ELSE FromDisk(cpu, desc1, sector, 0, desc1.len)

\* Where the available ring and the used ring are taken to be.
AvailAddr(v) == desc_addr(v) + 64
UsedAddr(v) == desc_addr(v) + 4096

\* What disk_access returns, with the device and the memory it leaves and
\* the step it had reached.
Outcome(ret, stage, v, mem) == [ret |-> ret, stage |-> stage, v |-> v, mem |-> mem]

\* A variant of Complete that writes the id without reducing it.
CompleteUnreduced(cpu) ==
    LET v1 == get_new_id(cpu.v)
        w == BusWrite(cpu.mem, UsedAddr(cpu.v) + 2, v1.id, HALFWORD)
    IN  IF w.ret # "Ok" THEN Outcome(w.ret, "used", v1, cpu.mem)
        ELSE Outcome("Ok", "done", v1, w.mem)

\* Lines 468-471: the new id, then the used-ring write.
Complete(cpu) ==
    LET v1 == get_new_id(cpu.v)
        w == BusWrite(cpu.mem, UsedAddr(cpu.v) + 2, v1.id % QUEUE_SIZE, HALFWORD)
    IN  IF w.ret # "Ok" THEN Outcome(w.ret, "used", v1, cpu.mem)
        ELSE Outcome("Ok", "done", v1, w.mem)

\* A variant of Serve that writes the status byte once the transfer has
\* succeeded.
ServeDeferred(cpu, desc0, desc1) ==
    LET v == cpu.v
        mem == cpu.mem
        desc2_addr == BusRead(mem, desc_addr(v) + VRING_DESC_SIZE * desc1.next,
                              DOUBLEWORD)
    IN  IF desc2_addr.ret # "Ok" THEN Outcome(desc2_addr.ret, "desc2", v, mem)
        ELSE
        LET sector == BusRead(mem, desc0.addr + 8, DOUBLEWORD)
        IN  IF sector.ret # "Ok" THEN Outcome(sector.ret, "sector", v, mem)
            ELSE
            LET t == Transfer([v |-> v, mem |-> mem], desc1, sector.val)
            IN  IF t.ret # "Ok" THEN Outcome(t.ret, "transfer", t.v, t.mem)
                ELSE
                LET st == BusWrite(t.mem, desc2_addr.val, 0, BYTE)
                IN  IF st.ret # "Ok" THEN Outcome(st.ret, "status", t.v, t.mem)
                    ELSE Complete([v |-> t.v, mem |-> st.mem])

\* Lines 423-457: the status address, the status byte, the sector, the
\* transfer; then the completion.
Serve(cpu, desc0, desc1) ==
    LET v == cpu.v
        mem == cpu.mem
        desc2_addr == BusRead(mem, desc_addr(v) + VRING_DESC_SIZE * desc1.next,
                              DOUBLEWORD)
    IN  IF desc2_addr.ret # "Ok" THEN Outcome(desc2_addr.ret, "desc2", v, mem)
        ELSE
        LET st == BusWrite(mem, desc2_addr.val, 0, BYTE)
        IN  IF st.ret # "Ok" THEN Outcome(st.ret, "status", v, mem)
            ELSE
            LET sector == BusRead(st.mem, desc0.addr + 8, DOUBLEWORD)
            IN  IF sector.ret # "Ok" THEN Outcome(sector.ret, "sector", v, st.mem)
                ELSE
                LET t == Transfer([v |-> v, mem |-> st.mem], desc1, sector.val)
                IN  IF t.ret # "Ok" THEN Outcome(t.ret, "transfer", t.v, t.mem)
                    ELSE Complete([v |-> t.v, mem |-> t.mem])

\* Lines 411-415: the two reads of the available ring.
AvailHead(v, mem) ==
    LET offset == BusRead(mem, AvailAddr(v) + 1, HALFWORD)
    IN  IF offset.ret # "Ok" THEN offset
        ELSE BusRead(mem, AvailAddr(v) + (offset.val % QUEUE_SIZE) + 2, HALFWORD)

\* Virtio::disk_access
disk_access(cpu) ==
    LET v == [cpu.v EXCEPT !.interrupt_status = SetBit0(cpu.v.interrupt_status)]
        mem == cpu.mem
        index == AvailHead(v, mem)
    IN  IF index.ret # "Ok" THEN Outcome(index.ret, "avail", v, mem)
        ELSE
        LET desc0 == VirtqDesc_new(mem, desc_addr(v) + VRING_DESC_SIZE * index.val)
        IN  IF desc0.ret # "Ok" THEN Outcome(desc0.ret, "desc0", v, mem)
            ELSE
            LET desc1 == VirtqDesc_new(mem, desc_addr(v) + VRING_DESC_SIZE * desc0.next)
            IN  IF desc1.ret # "Ok" THEN Outcome(desc1.ret, "desc1", v, mem)
                ELSE Serve([v |-> v, mem |-> mem], desc0, desc1)

(***************************************************************************)
(* Bounds of the model and the inputs it draws.                            *)
(***************************************************************************)
\* Register accesses (reads and writes) per behaviour of Spec.
MaxOps == 2
\* Completed requests per behaviour of Spec.
MaxAccess == 2
\* Completed requests per behaviour of SpecDma.
MaxRequests == 9
\* Register writes per behaviour of SpecDma.
MaxQueueWrites == 3
\* Register accesses (reads and writes) per behaviour of SpecSel.
MaxSelOps == 2
\* Length of the disk image given to Virtio::initialize.
DiskBytes == 516

\* The disk image: a byte pattern without zero bytes at the offsets used.
DiskImage == [i \in 1..DiskBytes |-> 1 + ((i * 7) % 250)]

\* The mapped RAM: a low window for the descriptor table, the available ring
\* and the buffers, and a window for the used ring.
RamAddrs == (0..127) \cup (4096..4099)

\* The guest's request, laid out by the driver before it notifies.
HdrAddr == 6 * VRING_DESC_SIZE
DataAddr == HdrAddr + 16
StatusAddr == DataAddr + 8
DataByte(a) == 160 + (a % 16)

\* Memory with an n-byte little-endian field stored at addr.
Put(mem, addr, value, size) == BusWrite(mem, addr, value, size).mem

\* A descriptor stored at addr.
PutDesc(mem, addr, d) ==
    Put(Put(Put(Put(mem, addr, d.addr, DOUBLEWORD), addr + 8, d.len, WORD),
            addr + 12, d.flags, HALFWORD), addr + 14, d.next, HALFWORD)

\* The guest memory for a request p: descriptors 0 (header), 1 (data) and
\* 2 (status) of the table at 0, the available ring at 0x40 with idx p.idx
\* and ring entries 0, the header with its sector at HdrAddr + 8, a data
\* buffer of bytes 0xA0.., a status byte of 0xFF.
Image(p) ==
    LET m0 == [a \in RamAddrs |->
                 IF a \in DataAddr..(DataAddr + 7) THEN DataByte(a)
                 ELSE IF a = StatusAddr THEN 255 ELSE 0]
        m1 == PutDesc(m0, 0, [addr |-> HdrAddr, len |-> 16, flags |-> 1, next |-> 1])
        m2 == PutDesc(m1, 16, [addr |-> p.daddr, len |-> p.len, flags |-> p.flags,
                               next |-> 2])
        m3 == PutDesc(m2, 32, [addr |-> p.saddr, len |-> 1, flags |-> 2, next |-> 0])
        m4 == Put(m3, 66, p.idx, HALFWORD)
    IN  Put(m4, HdrAddr + 8, p.sector, DOUBLEWORD)

\* The requests SpecDma starts from.
Requests ==
    [idx : {0, 1}, flags : {1, 3}, len : {2, 5}, sector : {0, 1, 2},
     daddr : {DataAddr, 126}, saddr : {StatusAddr, HdrAddr + 8, 200}]

\* The requests Spec starts from: one in each direction.
PlainRequests ==
    [idx : {0}, flags : {1, 3}, len : {2}, sector : {1},
     daddr : {DataAddr}, saddr : {StatusAddr}]

\* The register addresses the guest accesses: every register of the layout,
\* the configuration space and the two addresses after it, an unused offset.
Addrs ==
    {VIRTIO_MAGIC, VIRTIO_VERSION, VIRTIO_DEVICE_ID, VIRTIO_VENDOR_ID,
     VIRTIO_DEVICE_FEATURES, VIRTIO_DEVICE_FEATURES_SEL, VIRTIO_DRIVER_FEATURES,
     VIRTIO_DRIVER_FEATURES_SEL, VIRTIO_GUEST_PAGE_SIZE, VIRTIO_QUEUE_SEL,
     VIRTIO_QUEUE_NUM_MAX, VIRTIO_QUEUE_NUM, VIRTIO_QUEUE_ALIGN, VIRTIO_QUEUE_PFN,
     VIRTIO_QUEUE_NOTIFY, VIRTIO_MMIO_INTERRUPT_STATUS, VIRTIO_MMIO_INTERRUPT_ACK,
     VIRTIO_STATUS, VIRTIO_BASE + 68}
    \cup (VIRTIO_CONFIG..(VIRTIO_CONFIG_END + 1))

\* The values the guest writes to a register.
Values(addr) ==
    CASE addr \in {VIRTIO_DEVICE_FEATURES_SEL, VIRTIO_DRIVER_FEATURES_SEL} -> {0, 1, 2}
      [] addr = VIRTIO_DRIVER_FEATURES -> {0, 5}
      [] addr = VIRTIO_GUEST_PAGE_SIZE -> {0, 16}
      [] addr = VIRTIO_QUEUE_PFN -> {0, 1}
      [] addr = VIRTIO_QUEUE_NUM -> {1, 4}
      [] addr = VIRTIO_QUEUE_NOTIFY -> {0, 1, NO_NOTIFY}
      [] addr = VIRTIO_MMIO_INTERRUPT_ACK -> {0, 1, 2}
      [] addr \in VIRTIO_CONFIG..VIRTIO_CONFIG_END -> {171, 4813}
      [] addr \in {VIRTIO_QUEUE_SEL, VIRTIO_QUEUE_ALIGN, VIRTIO_STATUS} -> {0, 1}
      [] OTHER -> {1}

(***************************************************************************)
(* The state: the device, guest memory, the last call with what it         *)
(* returned, and records of the history: the notify edge (whether a Queue  *)
(* Notify write is still waiting for its poll), the number of requests     *)
(* served with success and the number that reached the completion step,    *)
(* the interrupt cause (raised by a served request, acknowledged by the    *)
(* guest), and the device, the memory and these records as they were       *)
(* before the last call.  The twin is a second device with its own memory, *)
(* driven by SpecSel with the same calls as the first.                     *)
(***************************************************************************)
VARIABLES virtio, mem, last, pre, ops, edge, served, reached, irq, twin

vars == <<virtio, mem, last, pre, ops, edge, served, reached, irq, twin>>

Before ==
    [v |-> virtio, mem |-> mem, edge |-> edge, served |-> served,
     reached |-> reached, irq |-> irq]

\* A second device and its memory, with what its last call returned.
Twin(v, m, ret, val) == [v |-> v, mem |-> m, ret |-> ret, val |-> val]

Call(op, addr, size, value, ret, val, stage) ==
    [op |-> op, addr |-> addr, size |-> size, value |-> value, ret |-> ret,
     val |-> val, stage |-> stage]

InitWith(requests) ==
    /\ virtio = initialize(VirtioNew, DiskImage)
    /\ \E p \in requests : mem = Image(p)
    /\ last = Call("new", 0, 0, 0, "Ok", 0, "")
    /\ ops = 0
    /\ edge = "idle"
    /\ served = 0
    /\ reached = 0
    /\ irq = "none"
    /\ twin = Twin(virtio, mem, "Ok", 0)
    /\ pre = Before

Init == InitWith(PlainRequests)

InitDma == InitWith(Requests)

\* A panic ends the process: nothing is called after it.
Running == last.ret # "panic"

\* Every call starts from the current device and memory.
Called == pre' = Before

\* The guest loads from a register.
Read(addr, size) ==
    /\ Running
    /\ Called
    /\ \E r \in {read(virtio, addr, size)} :
          last' = Call("read", addr, size, 0, r.ret, r.val, "")
    /\ ops' = ops + 1
    /\ UNCHANGED <<virtio, mem, edge, served, reached, irq>>

\* The guest stores to a register.
Write(addr, value, size) ==
    /\ Running
    /\ Called
    /\ \E r \in {write(virtio, addr, value, size)} :
           /\ virtio' = r.v
           /\ last' = Call("write", addr, size, value, r.ret, 0, "")
           /\ edge' = IF addr = VIRTIO_QUEUE_NOTIFY /\ r.ret = "Ok"
                      THEN "pending" ELSE edge
           /\ irq' = IF addr = VIRTIO_MMIO_INTERRUPT_ACK /\ r.ret = "Ok"
                     THEN "acked" ELSE irq
    /\ ops' = ops + 1
    /\ UNCHANGED <<mem, served, reached>>

\* The emulator polls the interrupt line.
IsInterrupting ==
    /\ Running
    /\ Called
    /\ \E r \in {is_interrupting(virtio)} :
           /\ virtio' = r.v
           /\ last' = Call("is_interrupting", 0, 0, 0, r.ret, 0, "")
    /\ edge' = IF edge = "pending" THEN "polled" ELSE edge
    /\ UNCHANGED <<mem, ops, served, reached, irq>>

\* The emulator serves a request.
DiskAccess ==
    /\ Running
    /\ Called
    /\ \E r \in {disk_access([v |-> virtio, mem |-> mem])} :
           /\ virtio' = r.v
           /\ mem' = r.mem
           /\ last' = Call("disk_access", 0, 0, 0, r.ret, 0, r.stage)
           /\ served' = IF r.ret = "Ok" THEN served + 1 ELSE served
           /\ reached' = IF r.stage \in {"used", "done"} THEN reached + 1
                         ELSE reached
           /\ irq' = IF r.ret = "Ok" \/ irq = "raised" THEN "raised" ELSE "none"
    /\ UNCHANGED <<ops, edge>>

\* The twin is driven by SpecSel only.
Alone == UNCHANGED twin

Next ==
    \/ (ops < MaxOps /\ Alone /\ \E addr \in Addrs, size \in Sizes : Read(addr, size))
    \/ (ops < MaxOps /\ Alone /\ \E addr \in Addrs, size \in Sizes :
            \E value \in Values(addr) : Write(addr, value, size))
    \/ (Alone /\ IsInterrupting)
    \/ (virtio.id < MaxAccess /\ Alone /\ DiskAccess)

Spec == Init /\ [][Next]_vars

\* The registers that place the queue in guest memory.
QueueAddrs == {VIRTIO_GUEST_PAGE_SIZE, VIRTIO_QUEUE_PFN}

NextDma ==
    \/ (virtio.id < MaxRequests /\ Alone /\ DiskAccess)
    \/ (ops < MaxQueueWrites /\ Alone /\ \E addr \in QueueAddrs :
            \E value \in Values(addr) : Write(addr, value, WORD))

SpecDma == InitDma /\ [][NextDma]_vars

(***************************************************************************)
(* Two devices driven by the same calls: every call made on the first      *)
(* device is made on the twin with the same arguments, except that a write *)
(* to Queue Select may carry another value.                                *)
(***************************************************************************)
TwinRead(addr, size) ==
    \E r \in {read(twin.v, addr, size)} :
        twin' = Twin(twin.v, twin.mem, r.ret, r.val)

TwinWrite(addr, value, size) ==
    \E r \in {write(twin.v, addr, value, size)} :
        twin' = Twin(r.v, twin.mem, r.ret, 0)

TwinIsInterrupting ==
    \E r \in {is_interrupting(twin.v)} :
        twin' = Twin(r.v, twin.mem, r.ret, 0)

TwinDiskAccess ==
    \E r \in {disk_access([v |-> twin.v, mem |-> twin.mem])} :
        twin' = Twin(r.v, r.mem, r.ret, 0)

\* The value the twin is given for a value written to the first device.
TwinValues(addr, value) ==
    IF addr = VIRTIO_QUEUE_SEL THEN Values(addr) ELSE {value}

\* The registers SpecSel writes: those that place and drive the queue.
SelAddrs ==
    {VIRTIO_QUEUE_SEL, VIRTIO_GUEST_PAGE_SIZE, VIRTIO_QUEUE_PFN, VIRTIO_QUEUE_NUM,
     VIRTIO_QUEUE_NOTIFY, VIRTIO_MMIO_INTERRUPT_ACK, VIRTIO_STATUS}

NextSel ==
    \/ (ops < MaxSelOps /\ \E addr \in Addrs :
            Read(addr, WORD) /\ TwinRead(addr, WORD))
    \/ (ops < MaxSelOps /\ \E addr \in SelAddrs :
            \E value \in Values(addr) : \E other \in TwinValues(addr, value) :
                Write(addr, value, WORD) /\ TwinWrite(addr, other, WORD))
    \/ (IsInterrupting /\ TwinIsInterrupting)
    \/ (virtio.id < MaxAccess /\ DiskAccess /\ TwinDiskAccess)

SpecSel == Init /\ [][NextSel]_vars

(***************************************************************************)
(* The claims.  Each is stated over the last call, the state before it     *)
(* (pre) and the state after it.                                           *)
(***************************************************************************)

\* C1: is_interrupting is one-shot.  A poll made when no Queue Notify write
\* has happened since the previous poll (or since construction) returns
\* false, whatever reads, other writes and disk_access calls came between.
C1_OneShot ==
    (last.op = "is_interrupting" /\ pre.edge # "pending") => last.ret = "false"

\* C1 witness: a second poll after a notify was polled, with a request
\* served and two register accesses made on the way; it returns false.
C1_Witness ==
    /\ last.op = "is_interrupting"
    /\ pre.edge = "polled"
    /\ last.ret = "false"
    /\ virtio.id > 0
    /\ ops = MaxOps

\* C2: every notify event is reported.  The first poll after a Queue Notify
\* write returns true, for every value written.
C2_EveryNotifyReported ==
    (last.op = "is_interrupting" /\ pre.edge = "pending") => last.ret = "true"

(***************************************************************************)
(* The request a disk_access call finds in the state c = pre: the chain    *)
(* that starts at the head index the device reads from the available ring. *)
(***************************************************************************)
Req(c) ==
    LET base == desc_addr(c.v)
        head == AvailHead(c.v, c.mem)
        hdr == VirtqDesc_new(c.mem, base + VRING_DESC_SIZE * head.val)
        data == VirtqDesc_new(c.mem, base + VRING_DESC_SIZE * hdr.next)
        st == BusRead(c.mem, base + VRING_DESC_SIZE * data.next, DOUBLEWORD)
        sec == BusRead(c.mem, hdr.addr + 8, DOUBLEWORD)
    IN  [ok |-> /\ head.ret = "Ok" /\ hdr.ret = "Ok" /\ data.ret = "Ok"
                /\ st.ret = "Ok" /\ sec.ret = "Ok",
         hdr |-> hdr, data |-> data, saddr |-> st.val, sector |-> sec.val]

\* The guest addresses of the data buffer, of the sector field and of the
\* used-ring field the device writes.
DataBuf(r) == r.data.addr..(r.data.addr + r.data.len - 1)
SectorField(r) == (r.hdr.addr + 8)..(r.hdr.addr + 15)
UsedField(c) == {UsedAddr(c.v) + 2, UsedAddr(c.v) + 3}

\* A well-formed request: the three descriptors, the sector field, the
\* data buffer and the status byte are readable memory, and the status byte
\* and the used-ring field lie outside the sector field and the data buffer.
WellFormed(c) ==
    LET r == Req(c)
    IN  /\ r.ok
        /\ r.saddr \in DOMAIN c.mem
        /\ DataBuf(r) \subseteq DOMAIN c.mem
        /\ r.saddr \notin (DataBuf(r) \cup SectorField(r))
        /\ UsedField(c) \cap DataBuf(r) = {}

\* The transfer lies within the backing store.
InStore(c) ==
    LET r == Req(c)
    IN  r.sector * SECTOR_SIZE + r.data.len <= DiskLen(c.v)

\* The backing-store offsets of the transfer.
Extent(r) == (r.sector * SECTOR_SIZE)..(r.sector * SECTOR_SIZE + r.data.len - 1)

ToDevice(c) == (Req(c).data.flags \div 2) % 2 = 0

UsedId == LittleEndian(mem, UsedAddr(pre.v) + 2, 2)

\* C5 as stated: the k-th successful disk_access (k = 0, 1, ...) writes
\* k mod 8 at used-ring base + 2; the first writes 0.
C5_Original ==
    (last.op = "disk_access" /\ last.ret = "Ok") =>
        UsedId = pre.served % QUEUE_SIZE

\* C5 as amended: a successful disk_access writes (1 + k) mod 8 at used-ring
\* base + 2, where k counts the earlier calls that reached the completion
\* step (every successful call, and a call whose used-ring write faulted);
\* when all of those succeeded, k is the number of successful calls before.
C5_UsedIdSequence ==
    (last.op = "disk_access" /\ last.ret = "Ok") =>
        /\ UsedId = (1 + pre.reached) % QUEUE_SIZE
        /\ (pre.reached = pre.served => UsedId = (1 + pre.served) % QUEUE_SIZE)

\* C5 witness: the eighth successful call, which wraps: it writes 0.
C5_Witness ==
    /\ last.op = "disk_access" /\ last.ret = "Ok"
    /\ pre.served = 7 /\ pre.reached = 7
    /\ UsedId = 0

\* C6: transfer bounds are enforced.  A disk_access never aborts the
\* process: a transfer that leaves the backing store ends in an error
\* returned to the caller.
C6_BoundsEnforced ==
    last.op = "disk_access" => last.ret # "panic"

\* The widths Virtio::read and Virtio::write serve.
NarrowSizes == {BYTE, HALFWORD, WORD}

\* The eight addresses of the configuration space.
ConfigSpace == VIRTIO_CONFIG..(VIRTIO_CONFIG + 7)

\* C7: a write to Interrupt ACK of a value with bit 0 unset, at byte,
\* halfword or word width, is reported as an error result and never aborts
\* the process.
C7_AckErrorNotAbort ==
    (/\ last.op = "write" /\ last.addr = VIRTIO_MMIO_INTERRUPT_ACK
     /\ last.size \in NarrowSizes /\ last.value % 2 = 0) =>
        (last.ret # "panic" /\ last.ret # "Ok")

\* The selector that goes with a feature register.
FeatureSel(v, addr) ==
    IF addr = VIRTIO_DEVICE_FEATURES THEN v.device_features_sel
    ELSE v.driver_features_sel

\* C8 as stated: with a valid selector s, a value v written to a feature
\* register is what a read of that feature register then returns.
C8_Original ==
    (/\ last.op = "write" /\ last.size \in NarrowSizes
     /\ last.addr \in {VIRTIO_DEVICE_FEATURES, VIRTIO_DRIVER_FEATURES}
     /\ FeatureSel(pre.v, last.addr) \in {0, 1}) =>
        (/\ last.ret = "Ok"
         /\ read(virtio, last.addr, WORD) = ReadOk(last.value))

\* C8 as amended: with a valid selector s, a value v written to Driver
\* Features is stored in word s of the driver's feature words and the other
\* word is kept; it is not read back: a read of Driver Features is a load
\* access fault, and a read of Device Features returns the selected word of
\* the device's own features, which no write changes.
C8_DriverFeatureWord ==
    /\ (/\ last.op = "write" /\ last.size \in NarrowSizes
        /\ last.addr = VIRTIO_DRIVER_FEATURES
        /\ pre.v.driver_features_sel \in {0, 1}) =>
           (/\ last.ret = "Ok"
            /\ virtio.driver_features[pre.v.driver_features_sel] = last.value
            /\ \A w \in {0, 1} \ {pre.v.driver_features_sel} :
                  virtio.driver_features[w] = pre.v.driver_features[w]
            /\ virtio.device_features = pre.v.device_features)
    /\ (/\ last.op = "read" /\ last.size \in NarrowSizes
        /\ last.addr = VIRTIO_DRIVER_FEATURES) => last.ret = "LoadAccessFault"
    /\ (/\ last.op = "read" /\ last.size \in NarrowSizes
        /\ last.addr = VIRTIO_DEVICE_FEATURES
        /\ pre.v.device_features_sel \in {0, 1}) =>
           (/\ last.ret = "Ok"
            /\ last.val = VirtioNew.device_features[pre.v.device_features_sel])

\* C8 witness: the selector was set to 1 and 5 written to Driver Features;
\* word 1 holds 5 and word 0 is still 0.
C8_Witness ==
    /\ last.op = "write" /\ last.addr = VIRTIO_DRIVER_FEATURES
    /\ last.value = 5 /\ last.ret = "Ok"
    /\ pre.v.driver_features_sel = 1
    /\ virtio.driver_features[1] = 5
    /\ virtio.driver_features[0] = 0

\* C9: configuration-space round trip.  After a byte-width write of a byte
\* b at offset k of the configuration space, a byte-width read of the same
\* address returns b, and the other seven bytes are as before.
C9_ConfigRoundTrip ==
    (/\ last.op = "write" /\ last.size = BYTE
     /\ last.addr \in ConfigSpace /\ last.value \in 0..255) =>
        (/\ last.ret = "Ok"
         /\ read(virtio, last.addr, BYTE) = ReadOk(last.value)
         /\ \A j \in 0..7 : j # last.addr - VIRTIO_CONFIG =>
               virtio.config[j] = pre.v.config[j])

\* An access of a width the register file rejects: a doubleword anywhere, a
\* halfword, word or doubleword in the configuration space.
RejectedWidth(call) ==
    \/ call.size = DOUBLEWORD
    \/ (call.addr \in ConfigSpace /\ call.size # BYTE)

\* C10: width rejection.  A rejected read returns a load access fault; a
\* rejected write returns a store access fault and leaves the device (every
\* register, the configuration bytes, the pending notify, the backing
\* store) and the notify edge as they were.
C10_WidthRejection ==
    /\ (last.op = "read" /\ RejectedWidth(last)) =>
           (last.ret = "LoadAccessFault" /\ virtio = pre.v)
    /\ (last.op = "write" /\ RejectedWidth(last)) =>
           (/\ last.ret = "StoreAMOAccessFault"
            /\ virtio = pre.v
            /\ edge = pre.edge)

\* C10 witness: configuration byte 0 was set to 0xAB by a byte write; a
\* halfword write of 0x12CD to the same address is rejected and the byte
\* is still 0xAB.
C10_Witness ==
    /\ last.op = "write" /\ last.size = HALFWORD
    /\ last.addr = VIRTIO_CONFIG /\ last.value = 4813
    /\ last.ret = "StoreAMOAccessFault"
    /\ virtio.config[0] = 171

\* The registers of the layout that are listed for reading and for writing
\* (the feature registers with their selectors, in either direction).
ReadListed ==
    {VIRTIO_MAGIC, VIRTIO_VERSION, VIRTIO_DEVICE_ID, VIRTIO_VENDOR_ID,
     VIRTIO_DEVICE_FEATURES, VIRTIO_DEVICE_FEATURES_SEL, VIRTIO_QUEUE_NUM_MAX,
     VIRTIO_QUEUE_PFN, VIRTIO_MMIO_INTERRUPT_STATUS, VIRTIO_STATUS}
    \cup ConfigSpace

WriteListed ==
    {VIRTIO_DEVICE_FEATURES, VIRTIO_DEVICE_FEATURES_SEL, VIRTIO_DRIVER_FEATURES,
     VIRTIO_DRIVER_FEATURES_SEL, VIRTIO_GUEST_PAGE_SIZE, VIRTIO_QUEUE_SEL,
     VIRTIO_QUEUE_NUM, VIRTIO_QUEUE_ALIGN, VIRTIO_QUEUE_PFN, VIRTIO_QUEUE_NOTIFY,
     VIRTIO_MMIO_INTERRUPT_ACK, VIRTIO_STATUS}
    \cup ConfigSpace

\* C11: unrecognized addresses fault.  A byte, halfword or word read at an
\* address that is not a register listed for reading (offset 0x108, just past
\* the configuration space, among them) returns a load access fault, a write
\* at an address not listed for writing returns a store access fault, and
\* either leaves the device as it was; neither aborts the process.
C11_UnrecognizedFault ==
    /\ (last.op = "read" /\ last.size \in NarrowSizes /\ last.addr \notin ReadListed) =>
           (last.ret = "LoadAccessFault" /\ virtio = pre.v)
    /\ (last.op = "write" /\ last.size \in NarrowSizes /\ last.addr \notin WriteListed) =>
           (last.ret = "StoreAMOAccessFault" /\ virtio = pre.v)

\* The constant an identification register holds: 0x74726976, 1, 2 and
\* 0x554d4551.
FixedValue(addr) ==
    CASE addr = VIRTIO_MAGIC -> 1953655158
      [] addr = VIRTIO_VERSION -> 1
      [] addr = VIRTIO_DEVICE_ID -> 2
      [] addr = VIRTIO_VENDOR_ID -> 1431127377

IdRegs == {VIRTIO_MAGIC, VIRTIO_VERSION, VIRTIO_DEVICE_ID, VIRTIO_VENDOR_ID}

\* C12: in every reachable state a byte, halfword or word read of Magic,
\* Version, Device ID and Vendor ID returns the fixed constant, and every
\* such read that was made returned it.
C12_ConstantRegisters ==
    /\ \A addr \in IdRegs, size \in NarrowSizes :
           read(virtio, addr, size) = ReadOk(FixedValue(addr))
    /\ (last.op = "read" /\ last.addr \in IdRegs /\ last.size \in NarrowSizes) =>
           (last.ret = "Ok" /\ last.val = FixedValue(last.addr))

\* C12 witness: the Version register read as 1 after the guest wrote 1 to
\* Status and a request was served.
C12_Witness ==
    /\ last.op = "read" /\ last.addr = VIRTIO_VERSION /\ last.size = BYTE
    /\ last.val = 1
    /\ virtio.status = 1
    /\ virtio.id > 0

\* The lookup of the available ring as C13 states it: the running index is
\* the 16-bit field at base + 2, the head is the 16-bit ring entry at
\* base + 4 + 2 * (index mod queue size).
StatedHead(c) ==
    LET idx == BusRead(c.mem, AvailAddr(c.v) + 2, HALFWORD)
    IN  IF idx.ret # "Ok" THEN idx
        ELSE BusRead(c.mem, AvailAddr(c.v) + 4 + 2 * (idx.val % QUEUE_SIZE),
                     HALFWORD)

\* C13: available-ring lookup.  The head descriptor index a disk_access
\* takes is the ring entry number (index mod queue size), where index is the
\* 16-bit field at available-ring base + 2.
C13_AvailLookup ==
    (last.op = "disk_access" /\ StatedHead(pre).ret = "Ok") =>
        AvailHead(pre.v, pre.mem) = StatedHead(pre)

\* The typed access faults.
Faults == {"LoadAccessFault", "StoreAMOAccessFault"}

\* C14: bit 0 of the interrupt status is set on completion only.  A
\* disk_access that returns a memory-access fault before the used-ring write
\* leaves the interrupt status as it was before the call.
C14_StatusOnlyOnCompletion ==
    (/\ last.op = "disk_access" /\ last.ret \in Faults
     /\ last.stage \notin {"used", "done"}) =>
        virtio.interrupt_status = pre.v.interrupt_status

\* C15: interrupt-status lifecycle.  From a successful disk_access until the
\* guest writes a value with bit 0 set to Interrupt ACK, bit 0 of the
\* interrupt status is set and every read of Interrupt Status returns it set;
\* from that write until the next disk_access bit 0 is clear and reads as
\* clear.  The ACK write changes nothing but that bit, in particular not what
\* is_interrupting returns, and is_interrupting leaves the interrupt status
\* as it was.
C15_InterruptLifecycle ==
    /\ (irq = "raised" => Bit0(virtio.interrupt_status) = 1)
    /\ (irq = "acked" => Bit0(virtio.interrupt_status) = 0)
    /\ (/\ last.op = "read" /\ last.addr = VIRTIO_MMIO_INTERRUPT_STATUS
        /\ last.size \in NarrowSizes) =>
           (/\ last.ret = "Ok"
            /\ (pre.irq = "raised" => Bit0(last.val) = 1)
            /\ (pre.irq = "acked" => Bit0(last.val) = 0))
    /\ (/\ last.op = "write" /\ last.addr = VIRTIO_MMIO_INTERRUPT_ACK
        /\ last.size \in NarrowSizes /\ Bit0(last.value) = 1) =>
           (/\ last.ret = "Ok"
            /\ virtio = [pre.v EXCEPT !.interrupt_status =
                                         ClearBit0(pre.v.interrupt_status)]
            /\ is_interrupting(virtio).ret = is_interrupting(pre.v).ret
            /\ edge = pre.edge)
    /\ (last.op = "is_interrupting" =>
           virtio.interrupt_status = pre.v.interrupt_status)

\* C15 witness: a request was served, the guest acknowledged the interrupt
\* and then read Interrupt Status: bit 0 reads as clear.
C15_Witness ==
    /\ last.op = "read" /\ last.addr = VIRTIO_MMIO_INTERRUPT_STATUS
    /\ last.size = WORD /\ last.ret = "Ok"
    /\ pre.irq = "acked"
    /\ last.val = 0
    /\ virtio.id > 0

\* C16: the sector is read before the status byte is written.  When the
\* status address lies inside the 8 sector bytes of the header, a served
\* request is still carried out at the sector the guest placed there: a
\* guest-to-device transfer stores the guest's bytes at S*512.., a
\* device-to-guest transfer loads the bytes of S*512...
C16_SectorBeforeStatus ==
    (/\ last.op = "disk_access" /\ last.ret = "Ok"
     /\ Req(pre).ok /\ InStore(pre)
     /\ Req(pre).saddr \in SectorField(Req(pre))
     /\ DataBuf(Req(pre)) \subseteq DOMAIN pre.mem) =>
        LET r == Req(pre)
        IN  IF ToDevice(pre)
            THEN \A o \in Extent(r) :
                    virtio.disk[o] = pre.mem[r.data.addr + (o - r.sector * SECTOR_SIZE)]
            ELSE \A a \in DataBuf(r) :
                    mem[a] = pre.v.disk[r.sector * SECTOR_SIZE + (a - r.data.addr)]

\* The descriptor walk of a disk_access from the state c: the head, the
\* header, the data descriptor and the status address are read.
Walked(c) ==
    LET base == desc_addr(c.v)
        head == AvailHead(c.v, c.mem)
        hdr == VirtqDesc_new(c.mem, base + VRING_DESC_SIZE * head.val)
        data == VirtqDesc_new(c.mem, base + VRING_DESC_SIZE * hdr.next)
        st == BusRead(c.mem, base + VRING_DESC_SIZE * data.next, DOUBLEWORD)
    IN  head.ret = "Ok" /\ hdr.ret = "Ok" /\ data.ret = "Ok" /\ st.ret = "Ok"

\* C17: optimistic status.  A disk_access that completes the descriptor
\* walk with a writable status address (outside the data buffer and the
\* used-ring field) leaves the byte 0 at the status address whatever comes
\* after: a sector read that faults, a transfer that fails part-way, a
\* used-ring write that faults, or success.
C17_OptimisticStatus ==
    (/\ last.op = "disk_access" /\ Walked(pre)
     /\ Req(pre).saddr \in DOMAIN pre.mem
     /\ Req(pre).saddr \notin (DataBuf(Req(pre)) \cup UsedField(pre))) =>
        (/\ last.stage \in {"sector", "transfer", "used", "done"}
         /\ mem[Req(pre).saddr] = 0)

\* C17 witness: a guest-to-device transfer that stored bytes and then
\* faulted on a guest read; the status byte, 0xFF before, reads 0.
C17_Witness ==
    /\ last.op = "disk_access" /\ last.stage = "transfer"
    /\ last.ret = "LoadAccessFault"
    /\ Walked(pre)
    /\ virtio.disk # pre.v.disk
    /\ pre.mem[Req(pre).saddr] = 255
    /\ mem[Req(pre).saddr] = 0

\* C18: fault propagation.  A disk_access that returns a memory-access
\* fault, at whichever access, has not written the used ring and leaves the
\* request-id counter as it was.
C18_FaultPropagation ==
    (last.op = "disk_access" /\ last.ret \in Faults) =>
        (/\ virtio.id = pre.v.id
         /\ \A a \in UsedField(pre) \cap DOMAIN mem : mem[a] = pre.mem[a])

\* C19: ring arithmetic uses the queue size the guest wrote to Queue Num.
\* With n in 1..8 in the queue-size field, the used-ring id a successful
\* disk_access writes is a value reduced modulo n, so below n.
C19_GuestQueueSize ==
    (/\ last.op = "disk_access" /\ last.ret = "Ok"
     /\ pre.v.queue_num \in 1..QUEUE_NUM_MAX_VALUE) =>
        UsedId < pre.v.queue_num

C21_FeatureSelectorSafety ==
    (/\ last.size \in NarrowSizes
     /\ \/ (last.op = "read" /\ last.addr = VIRTIO_DEVICE_FEATURES)
        \/ (last.op = "write" /\ last.addr = VIRTIO_DRIVER_FEATURES)) =>
        last.ret \in {"Ok"} \cup Faults

=============================================================================
